---- MODULE Spec2Model ----
(***************************************************************************)
(* Model of src/ppp_calculator.py: calculate_ppp(currency_a, currency_b,   *)
(* price_data).  The caller's DataFrame is the variable df; the function's *)
(* local name price_data is rebound by every filtering statement.  Prices  *)
(* are small integers and ratios are exact rationals <<num, den>>; the     *)
(* IEEE results of a float64 division by zero (inf, -inf, nan) and the     *)
(* ZeroDivisionError of an object-dtype division are kept apart.           *)
(***************************************************************************)
EXTENDS Integers, Sequences, FiniteSets, TLC

\* ------------------------------------------------------------ bounds
MaxRows == 2
MaxPrice == 2

PriceValues == {-1, 0, MaxPrice}

\* ------------------------------------------------------------ values
StrCurrency(s) == [type |-> "str", val |-> s]
NonStrCurrency == [type |-> "int", val |-> "42"]
Currencies == {StrCurrency("USD"), StrCurrency("EUR"), NonStrCurrency}
StringCurrencies == {c \in Currencies : c.type = "str"}

NumCell(v) == [kind |-> "num", val |-> v]
NaNCell == [kind |-> "nan", val |-> 0]
StrCell == [kind |-> "str", val |-> 0]
PriceCells == {NumCell(v) : v \in PriceValues} \cup {NaNCell, StrCell}
LabelCells == {StrCell, NaNCell}

ColumnNames == {"Goods_Services", "Price_A", "Price_B"}
PriceColumns == {"Price_A", "Price_B"}

\* pandas' dtype inference for a column built from a list: a string cell (or
\* no cell at all) gives object, numbers and NaN give float64/int64.
InferDtype(cells) ==
    IF cells = {} \/ StrCell \in cells THEN "object" ELSE "numeric"

DataFrame(cols, rws) ==
    [columns |-> cols,
     dtypes |-> [c \in cols |-> InferDtype({rws[i][c] : i \in 1..Len(rws)})],
     rows |-> rws]

\* ------------------------------------------------------------ outcomes
Value(q) == [kind |-> "value", num |-> q[1], den |-> q[2], msg |-> ""]
Special(k) == [kind |-> k, num |-> 0, den |-> 1, msg |-> ""]
Raise(k, m) == [kind |-> k, num |-> 0, den |-> 1, msg |-> m]
None == Special("none")

MsgCurrency == "Currency codes must be strings."
MsgColumns == "DataFrame must contain 'Price_A' and 'Price_B' columns."
MsgNoData == "DataFrame must contain valid numeric price data."

\* ------------------------------------------------------------ rationals
Abs(n) == IF n < 0 THEN -n ELSE n

RECURSIVE Gcd(_, _)
Gcd(a, b) == IF b = 0 THEN a ELSE Gcd(b, a % b)

Normalize(n, d) ==
    LET g == Gcd(Abs(n), Abs(d))
        s == IF d < 0 THEN -1 ELSE 1
    IN  <<(s * n) \div g, (s * d) \div g>>

RatAdd(p, q) == Normalize(p[1] * q[2] + q[1] * p[2], p[2] * q[2])
RatDivInt(p, n) == Normalize(p[1], p[2] * n)

RECURSIVE SelectRows(_, _)
SelectRows(rws, keep) ==
    IF rws = <<>> THEN <<>>
    ELSE IF keep[1] THEN <<Head(rws)>> \o SelectRows(Tail(rws), Tail(keep))
         ELSE SelectRows(Tail(rws), Tail(keep))

\* ------------------------------------------------------------ the steps
\* line 18: isinstance(currency, str)
isinstance_str(c) == c.type = "str"

\* Variant: the two type tests joined by "and".
CurrenciesInvalid_And(ca, cb) == ~isinstance_str(ca) /\ ~isinstance_str(cb)

\* line 18: not isinstance(currency_a, str) or not isinstance(currency_b, str)
CurrenciesInvalid(ca, cb) == ~isinstance_str(ca) \/ ~isinstance_str(cb)

\* Variant: the two column tests joined by "and", so one column suffices.
HasPriceColumns_Either(t) == "Price_A" \in t.columns \/ "Price_B" \in t.columns

\* line 21: 'Price_A' not in price_data.columns or 'Price_B' not in ...
HasPriceColumns(t) == "Price_A" \in t.columns /\ "Price_B" \in t.columns

\* Variant: dropna() without subset=, which looks at every column.
dropna_any(t, subset) ==
    [t EXCEPT !.rows =
        SelectRows(t.rows,
                   [i \in 1..Len(t.rows) |->
                       \A c \in t.columns : t.rows[i][c].kind # "nan"])]

\* line 25: price_data.dropna(subset=[...]) returns a new frame without the
\* rows that hold a missing value in one of the subset's columns.
dropna(t, subset) ==
    [t EXCEPT !.rows =
        SelectRows(t.rows,
                   [i \in 1..Len(t.rows) |->
                       \A c \in subset : t.rows[i][c].kind # "nan"])]

\* Variant: a test that lets strings through.
isreal_str(cell) == cell.kind \in {"num", "str"}

\* np.isreal(x): imag(x) == 0, False for a str
isreal(cell) == cell.kind = "num"

\* Variant: the mask built from Price_A alone.
FilterReal_OnlyA(t) ==
    [t EXCEPT !.rows =
        SelectRows(t.rows,
                   [i \in 1..Len(t.rows) |-> t.rows[i]["Price_A"].kind = "num"])]

\* line 26: boolean-mask indexing returns a new frame
FilterReal(t) ==
    [t EXCEPT !.rows =
        SelectRows(t.rows,
                   [i \in 1..Len(t.rows) |->
                       isreal(t.rows[i]["Price_A"]) /\ isreal(t.rows[i]["Price_B"])])]

\* line 28: price_data.empty
empty(t) == Len(t.rows) = 0

\* One element of Series / Series.  float64 columns divide as IEEE doubles;
\* when either column has dtype object the elements are Python numbers and
\* Python's own division raises on a zero divisor.
Divide(a, b, isObject) ==
    IF b # 0 THEN Value(Normalize(a, b))
    ELSE IF isObject THEN Raise("ZeroDivisionError", "division by zero")
    ELSE IF a > 0 THEN Special("inf")
    ELSE IF a < 0 THEN Special("-inf")
    ELSE Special("nan")

\* line 32: price_data['Price_A'] / price_data['Price_B']
Ratios(t) ==
    LET isObject == t.dtypes["Price_A"] = "object" \/ t.dtypes["Price_B"] = "object"
    IN  [i \in 1..Len(t.rows) |->
            Divide(t.rows[i]["Price_A"].val, t.rows[i]["Price_B"].val, isObject)]

RatiosRaise(rs) == \E i \in 1..Len(rs) : rs[i].kind = "ZeroDivisionError"

RECURSIVE SumValues(_)
SumValues(rs) ==
    IF rs = <<>> THEN <<0, 1>>
    ELSE IF Head(rs).kind = "value"
         THEN RatAdd(<<Head(rs).num, Head(rs).den>>, SumValues(Tail(rs)))
         ELSE SumValues(Tail(rs))

\* line 35: np.mean(series) is series.mean(), which skips NaN (skipna=True)
mean(rs) ==
    LET idx == 1..Len(rs)
        kept == {i \in idx : rs[i].kind # "nan"}
        posInf == \E i \in idx : rs[i].kind = "inf"
        negInf == \E i \in idx : rs[i].kind = "-inf"
    IN  IF kept = {} THEN Special("nan")
        ELSE IF posInf /\ negInf THEN Special("nan")
        ELSE IF posInf THEN Special("inf")
        ELSE IF negInf THEN Special("-inf")
        ELSE Value(RatDivInt(SumValues(rs), Cardinality(kept)))

\* Variant: the rate inverted when the first currency is EUR.
calculate_ppp_by_code(ca, cb, t) ==
    IF ~isinstance_str(ca) \/ ~isinstance_str(cb) THEN Raise("ValueError", MsgCurrency)
    ELSE IF ~("Price_A" \in t.columns /\ "Price_B" \in t.columns)
         THEN Raise("ValueError", MsgColumns)
    ELSE LET u == IF ca.val = "EUR"
                  THEN [t EXCEPT !.rows =
                          [i \in 1..Len(t.rows) |->
                             [t.rows[i] EXCEPT !["Price_A"] = t.rows[i]["Price_B"],
                                               !["Price_B"] = t.rows[i]["Price_A"]]]]
                  ELSE t
             filtered == FilterReal(dropna(u, PriceColumns))
         IN  IF empty(filtered) THEN Raise("ValueError", MsgNoData)
             ELSE IF RatiosRaise(Ratios(filtered))
                  THEN Raise("ZeroDivisionError", "division by zero")
                  ELSE mean(Ratios(filtered))

\* The whole call, lines 17-38.
calculate_ppp(ca, cb, t) ==
    IF CurrenciesInvalid(ca, cb) THEN Raise("ValueError", MsgCurrency)
    ELSE IF ~HasPriceColumns(t) THEN Raise("ValueError", MsgColumns)
    ELSE LET filtered == FilterReal(dropna(t, PriceColumns))
         IN  IF empty(filtered) THEN Raise("ValueError", MsgNoData)
             ELSE IF RatiosRaise(Ratios(filtered))
                  THEN Raise("ZeroDivisionError", "division by zero")
                  ELSE mean(Ratios(filtered))

\* ------------------------------------------------------------ state
VARIABLES currency_a, currency_b, df, price_data, price_ratios, pc, result

vars == <<currency_a, currency_b, df, price_data, price_ratios, pc, result>>

\* A caller's table, as pd.DataFrame(data) builds it from lists (lines 41-47).
MakeTable(cols, n, prices, label) ==
    DataFrame(cols,
              [i \in 1..n |->
                  [c \in cols |-> IF c = "Goods_Services" THEN label
                                  ELSE prices[i][c]]])

Init ==
    /\ currency_a \in Currencies
    /\ currency_b \in Currencies
    /\ \E cols \in SUBSET ColumnNames, n \in 0..MaxRows :
         \E prices \in [1..n -> [cols \cap PriceColumns -> PriceCells]],
            label \in LabelCells :
            df = MakeTable(cols, n, prices, label)
    /\ price_data = df
    /\ price_ratios = <<>>
    /\ pc = "check_currencies"
    /\ result = None

Fail(r) ==
    /\ result' = r
    /\ pc' = "done"

\* lines 18-19
CheckCurrencies ==
    /\ pc = "check_currencies"
    /\ IF CurrenciesInvalid(currency_a, currency_b)
       THEN Fail(Raise("ValueError", MsgCurrency))
       ELSE pc' = "check_columns" /\ UNCHANGED result
    /\ UNCHANGED <<currency_a, currency_b, df, price_data, price_ratios>>

\* lines 21-22
CheckColumns ==
    /\ pc = "check_columns"
    /\ IF ~HasPriceColumns(price_data)
       THEN Fail(Raise("ValueError", MsgColumns))
       ELSE pc' = "dropna" /\ UNCHANGED result
    /\ UNCHANGED <<currency_a, currency_b, df, price_data, price_ratios>>

\* Variant: dropna(..., inplace=True) on the caller's frame.
DropNa_inplace ==
    /\ pc = "dropna"
    /\ price_data' = dropna(price_data, PriceColumns)
    /\ df' = price_data'
    /\ pc' = "filter"
    /\ UNCHANGED <<currency_a, currency_b, price_ratios, result>>

\* line 25
DropNa ==
    /\ pc = "dropna"
    /\ price_data' = dropna(price_data, PriceColumns)
    /\ pc' = "filter"
    /\ UNCHANGED <<currency_a, currency_b, df, price_ratios, result>>

\* line 26
FilterNumeric ==
    /\ pc = "filter"
    /\ price_data' = FilterReal(price_data)
    /\ pc' = "check_empty"
    /\ UNCHANGED <<currency_a, currency_b, df, price_ratios, result>>

\* lines 28-29
CheckEmpty ==
    /\ pc = "check_empty"
    /\ IF empty(price_data)
       THEN Fail(Raise("ValueError", MsgNoData))
       ELSE pc' = "ratios" /\ UNCHANGED result
    /\ UNCHANGED <<currency_a, currency_b, df, price_data, price_ratios>>

\* line 32
ComputeRatios ==
    /\ pc = "ratios"
    /\ IF RatiosRaise(Ratios(price_data))
       THEN Fail(Raise("ZeroDivisionError", "division by zero")) /\ UNCHANGED price_ratios
       ELSE price_ratios' = Ratios(price_data) /\ pc' = "mean" /\ UNCHANGED result
    /\ UNCHANGED <<currency_a, currency_b, df, price_data>>

\* lines 35-38
ReturnMean ==
    /\ pc = "mean"
    /\ result' = mean(price_ratios)
    /\ pc' = "done"
    /\ UNCHANGED <<currency_a, currency_b, df, price_data, price_ratios>>

Next ==
    \/ CheckCurrencies
    \/ CheckColumns
    \/ DropNa
    \/ FilterNumeric
    \/ CheckEmpty
    \/ ComputeRatios
    \/ ReturnMean

Spec == Init /\ [][Next]_vars

\* ------------------------------------------------------------ properties
BothStrings == currency_a.type = "str" /\ currency_b.type = "str"
LacksPriceColumn(t) == ~(PriceColumns \subseteq t.columns)
RowIsValid(r) == \A c \in PriceColumns \cap DOMAIN r : r[c].kind = "num"
ValidIdx(t) == {i \in 1..Len(t.rows) : RowIsValid(t.rows[i])}
Returned == pc = "done" /\ result.kind \in {"value", "inf", "-inf", "nan"}
Raised == pc = "done" /\ result.kind \notin {"value", "inf", "-inf", "nan"}
ZeroDivisor(t) == \E i \in ValidIdx(t) : t.rows[i]["Price_B"].val = 0

RECURSIVE ValidOnly(_)
ValidOnly(rws) ==
    IF rws = <<>> THEN <<>>
    ELSE (IF RowIsValid(Head(rws)) THEN <<Head(rws)>> ELSE <<>>) \o ValidOnly(Tail(rws))

\* sum of Price_A/Price_B over the rows in S, as an unreduced fraction
RECURSIVE RefSum(_, _)
RefSum(t, S) ==
    IF S = {} THEN <<0, 1>>
    ELSE LET i == CHOOSE j \in S : TRUE
             rest == RefSum(t, S \ {i})
             a == t.rows[i]["Price_A"].val
             b == t.rows[i]["Price_B"].val
         IN  <<a * rest[2] + rest[1] * b, b * rest[2]>>

IsMeanOfRatios(r, t) ==
    LET s == RefSum(t, ValidIdx(t))
        n == Cardinality(ValidIdx(t))
    IN  /\ r.kind = "value"
        /\ ~ZeroDivisor(t)
        /\ r.num * s[2] * n = s[1] * r.den

\* C1: with string currencies, both price columns and at least one valid row,
\* the call returns sum(Price_A_i / Price_B_i over valid rows) / count(valid rows).
C1_MeanOfRatios ==
    (pc = "done" /\ BothStrings /\ ~LacksPriceColumn(df) /\ ValidIdx(df) # {})
        => IsMeanOfRatios(result, df)

\* The mean-of-ratios equation on the tables whose valid rows all have a
\* nonzero Price_B.
MeanOfRatiosNonzeroDivisor ==
    (pc = "done" /\ BothStrings /\ ~LacksPriceColumn(df) /\ ValidIdx(df) # {}
        /\ ~ZeroDivisor(df))
        => IsMeanOfRatios(result, df)

\* C2: only rows valid in both price columns contribute: the outcome equals the
\* outcome on the table with every invalid row deleted, and the filtered frame
\* holds exactly the rows valid in both columns.
C2_OnlyValidRowsContribute ==
    /\ pc \in {"check_empty", "ratios", "mean"} => price_data.rows = ValidOnly(df.rows)
    /\ pc = "done" =>
          result = calculate_ppp(currency_a, currency_b,
                                 [df EXCEPT !.rows = ValidOnly(df.rows)])

C2_Witness ==
    /\ pc = "done"
    /\ result.kind = "value"
    /\ \E i, j \in 1..Len(df.rows) :
          /\ df.rows[i]["Price_A"].kind = "num"
          /\ df.rows[i]["Price_B"].kind \in {"nan", "str"}
          /\ RowIsValid(df.rows[j])

\* The same equality against the table built anew from the valid rows, whose
\* column dtypes are inferred again, on the tables whose valid rows all have a
\* nonzero Price_B (with a zero divisor a deleted string cell decides between
\* ZeroDivisionError and inf).
RebuiltTableNonzeroDivisor ==
    (pc = "done" /\ (LacksPriceColumn(df) \/ ~ZeroDivisor(df))) =>
        result = calculate_ppp(currency_a, currency_b,
                               DataFrame(df.columns, ValidOnly(df.rows)))

\* C3: with string currencies and both price columns, a table with no valid
\* row (zero rows, or every row invalid) fails with the no-data ValueError.
C3_NoValidRowsFails ==
    (pc = "done" /\ BothStrings /\ ~LacksPriceColumn(df) /\ ValidIdx(df) = {})
        => result = Raise("ValueError", MsgNoData)

C3_Witness ==
    /\ pc = "done" /\ BothStrings /\ ~LacksPriceColumn(df)
    /\ result = Raise("ValueError", MsgNoData)
    /\ \E i, j \in 1..Len(df.rows) :
          /\ df.rows[i]["Price_A"].kind = "nan"
          /\ df.rows[j]["Price_B"].kind = "str"

\* C4: a non-string currency_a or currency_b always fails with the currency
\* ValueError, and the call ends at the currency check whatever the table is.
C4_NonStringCurrencyFails ==
    (currency_a.type # "str" \/ currency_b.type # "str") =>
        /\ pc \in {"check_currencies", "done"}
        /\ pc = "done" => result = Raise("ValueError", MsgCurrency)

C4_Witness ==
    /\ pc = "done"
    /\ currency_a.type = "str" /\ currency_b.type # "str"
    /\ LacksPriceColumn(df)
    /\ result = Raise("ValueError", MsgCurrency)

\* C5: with string currencies, a table lacking Price_A or Price_B always fails
\* with the columns ValueError and no row is ever looked at.
C5_MissingColumnFails ==
    (BothStrings /\ LacksPriceColumn(df)) =>
        /\ pc \in {"check_currencies", "check_columns", "done"}
        /\ pc = "done" => result = Raise("ValueError", MsgColumns)

C5_Witness ==
    /\ pc = "done" /\ BothStrings
    /\ "Price_A" \in df.columns /\ "Price_B" \notin df.columns
    /\ Len(df.rows) > 0
    /\ result = Raise("ValueError", MsgColumns)

\* C6: for a fixed table every pair of string currencies gives the same
\* outcome as the pair the call was made with.
C6_CurrencyIndependence ==
    (pc = "done" /\ BothStrings) =>
        \A x, y \in StringCurrencies : calculate_ppp(x, y, df) = result

C6_Witness ==
    /\ pc = "done"
    /\ currency_a = StrCurrency("EUR") /\ currency_b = StrCurrency("USD")
    /\ result.kind = "value" /\ result.num # result.den

\* C7: no step of the call changes the caller's table or the currency arguments.
C7_TableNotMutated ==
    [][df' = df /\ currency_a' = currency_a /\ currency_b' = currency_b]_vars

C7_Witness ==
    /\ pc = "done" /\ result.kind = "value"
    /\ Len(price_data.rows) < Len(df.rows)

\* C8: a returned value is a finite number, never infinity or NaN, also when a
\* valid row has Price_B = 0.
C8_FiniteResult == Returned => result.kind = "value"

\* C9: ValueError is the only error, raised only for a non-string currency, a
\* missing price column or no valid row; otherwise the call returns a value.
C9_OnlyInvalidArgument ==
    pc = "done" =>
        /\ Raised => /\ result.kind = "ValueError"
                     /\ \/ ~BothStrings
                        \/ LacksPriceColumn(df)
                        \/ ValidIdx(df) = {}
        /\ (BothStrings /\ ~LacksPriceColumn(df) /\ ValidIdx(df) # {}) => Returned

\* With nonzero Price_B in every valid row the call raises nothing but the
\* three ValueErrors and returns a finite value.
NonzeroDivisorOutcome ==
    (pc = "done" /\ (LacksPriceColumn(df) \/ ~ZeroDivisor(df))) =>
        /\ Returned => result.kind = "value"
        /\ Raised => result.kind = "ValueError"

\* the table t with its Goods_Services column removed
WithoutLabels(t) ==
    LET cols == t.columns \ {"Goods_Services"}
    IN  [columns |-> cols,
         dtypes |-> [c \in cols |-> t.dtypes[c]],
         rows |-> [i \in 1..Len(t.rows) |-> [c \in cols |-> t.rows[i][c]]]]

\* the table t with the Goods_Services column set to the labels l
WithLabels(t, l) ==
    LET cols == t.columns \cup {"Goods_Services"}
    IN  [columns |-> cols,
         dtypes |-> [c \in cols |-> IF c = "Goods_Services" THEN "object"
                                    ELSE t.dtypes[c]],
         rows |-> [i \in 1..Len(t.rows) |->
                     [c \in cols |-> IF c = "Goods_Services" THEN l[i]
                                     ELSE t.rows[i][c]]]]

OtherColumnVariants(t) ==
    {WithoutLabels(t)} \cup {WithLabels(t, l) : l \in [1..Len(t.rows) -> LabelCells]}

PricesOf(t) == [i \in 1..Len(t.rows) |-> [c \in PriceColumns |-> t.rows[i][c]]]

\* C10: removing the Goods_Services column or changing any of its cells (to a
\* label or to a missing value) changes neither the rows kept nor the outcome.
C10_OtherColumnsIgnored ==
    pc = "done" =>
        \A t \in OtherColumnVariants(df) :
            /\ calculate_ppp(currency_a, currency_b, t) = result
            /\ ~LacksPriceColumn(df) =>
                  PricesOf(FilterReal(dropna(t, PriceColumns))) =
                      PricesOf(FilterReal(dropna(df, PriceColumns)))

C10_Witness ==
    /\ pc = "done" /\ result.kind = "value"
    /\ "Goods_Services" \in df.columns
    /\ \E i \in 1..Len(df.rows) : df.rows[i]["Goods_Services"] = NaNCell

====
